---- MODULE Spec2Model ----
(***************************************************************************)
(* Model of the genomic interval engine under src/ATAC:                    *)
(*   interval_merge.py    merge_intervals                                  *)
(*   interval_overlap.py  intervals_overlap, find_overlaps_1d,             *)
(*                        find_overlaps_genomic                            *)
(*   union_peak.py        merge_intervals_1d, union_peaks                  *)
(*   peak_annotation.py   build_promoters .. annotate_peaks                *)
(*                                                                         *)
(* Python lists are sequences; tuples are tuples; indices that the code    *)
(* returns (i, j, original indices) keep Python's 0-based values, so a     *)
(* list element x[i] of the code is x[i + 1] here.  A dict is a sequence   *)
(* of <<key, value>> pairs in insertion order.                             *)
(*                                                                         *)
(* Each operation has its own specification (SpecMerge, SpecSweep,         *)
(* SpecGenomic, SpecUnion, SpecAnnotate): Init draws the call's arguments  *)
(* from bounded sets and the actions run the code.  The variables of the   *)
(* other operations stay at their idle value.  SpecIntervals and SpecAll   *)
(* let the caller choose among several operations; op records the choice.  *)
(***************************************************************************)
EXTENDS Integers, Sequences, FiniteSets

VARIABLES
    op,           \* the operation that was called
    pc,           \* position of the running call
    fn,           \* merge: which of the two merge functions was called
    intervals,    \* merge: the caller's list object (sorted in place)
    intervals0,   \* merge: the list's content when the call was made
    merged,       \* merge: the returned list
    remerged,     \* merge: the result of merging the returned list again
    intervals_a,  \* sweep: first argument of find_overlaps_1d / _genomic
    intervals_b,  \* sweep: second argument
    a,            \* find_overlaps_1d: sorted copy of intervals_a
    b,            \* find_overlaps_1d: sorted copy of intervals_b
    i,            \* find_overlaps_1d: pointer into a (0-based)
    j,            \* find_overlaps_1d: pointer into b (0-based)
    result,       \* find_overlaps_1d: the pairs emitted so far
    grouped_a,    \* find_overlaps_genomic: chrom -> [(start, end, idx)] of A
    grouped_b,    \* find_overlaps_genomic: chrom -> [(start, end, idx)] of B
    remaining,    \* find_overlaps_genomic: common chromosomes not yet visited
    overlaps,     \* find_overlaps_genomic: the pairs emitted so far
    peaks_by_sample,    \* union_peaks: dict sample -> peaks, as <<key, value>> pairs
    return_membership,  \* union_peaks: the flag
    union_list,         \* union_peaks: the returned union peaks
    membership,         \* union_peaks: union peak -> samples, or "None"
    peaks,                \* annotate_peaks: the peak list
    genes,                \* annotate_peaks: the GeneRecord list
    promoter_upstream,    \* annotate_peaks: argument
    promoter_downstream,  \* annotate_peaks: argument
    out                   \* annotate_peaks: the returned records

mergeVars == <<fn, intervals, intervals0, merged, remerged>>
sweepVars == <<intervals_a, intervals_b, a, b, i, j, result>>
genVars == <<grouped_a, grouped_b, remaining, overlaps>>
unionVars == <<peaks_by_sample, return_membership, union_list, membership>>
annVars == <<peaks, genes, promoter_upstream, promoter_downstream, out>>
vars == <<op, pc, mergeVars, sweepVars, genVars, unionVars, annVars>>

\* What the actions of one operation leave alone
notMerge == <<op, sweepVars, genVars, unionVars, annVars>>
notSweep == <<op, mergeVars, genVars, unionVars, annVars>>
notGenomic == <<op, mergeVars, unionVars, annVars>>
notUnion == <<op, mergeVars, sweepVars, genVars, annVars>>
notAnnotate == <<op, mergeVars, sweepVars, genVars, unionVars>>

----------------------------------------------------------------------------
(* Bounds *)

MergeMaxCoord == 4
MergeMaxLen == 3
SweepMaxCoord == 2
SweepMaxLenA == 2
SweepMaxLenB == 2
GenMaxCoord == 2
GenMaxLenA == 2
GenMaxLenB == 2
UnionMaxCoord == 3
UnionMaxPeaks == 3
AnnMaxCoord == 3
AnnMaxPeaks == 2
AnnMaxGenes == 2
AnnMaxTotal == 3
AnnMaxFlank == 1
NearMaxCoord == 4
NearMaxGenes == 3

----------------------------------------------------------------------------
(* Generic helpers *)

Max(x, y) == IF x >= y THEN x ELSE y

Min(x, y) == IF x <= y THEN x ELSE y

Abs(x) == IF x < 0 THEN -x ELSE x

SeqsUpTo(S, n) == UNION {[1..k -> S] : k \in 0..n}

Range(s) == {s[k] : k \in DOMAIN s}

\* Valid half-open 1D intervals (start, end) with 0 <= start < end <= hi
Intervals1D(hi) == {iv \in (0..hi) \X (0..hi) : iv[1] < iv[2]}

\* list.sort(key=...) is a stable sort: the element at position p of the
\* input lands at rank 1 + #{q : key[q] < key[p], or key[q] = key[p] and q < p}
SortRank(keys, p) ==
    1 + Cardinality({q \in DOMAIN keys :
                        keys[q] < keys[p] \/ (keys[q] = keys[p] /\ q < p)})

SortPerm(keys) ==
    [k \in DOMAIN keys |-> CHOOSE p \in DOMAIN keys : SortRank(keys, p) = k]

\* Mutant: the list is left in the order given
NoSort(s) == s

\* s.sort(key=lambda x: x[0]) for a list of tuples whose first item is start
SortByStart(s) ==
    LET keys == [k \in DOMAIN s |-> s[k][1]]
        perm == SortPerm(keys)
    IN [k \in DOMAIN s |-> s[perm[k]]]

IsSortedByStart(s) == \A k \in 1..(Len(s) - 1) : s[k][1] <= s[k + 1][1]

\* The integer points of [start, end)
Points(iv) == iv[1]..(iv[2] - 1)

Covered(s) == UNION {Points(s[k]) : k \in DOMAIN s}

----------------------------------------------------------------------------
(* Idle values of each operation's variables *)

MergeIdle ==
    /\ fn = "none"
    /\ intervals = <<>>
    /\ intervals0 = <<>>
    /\ merged = <<>>
    /\ remerged = <<>>

SweepIdle ==
    /\ intervals_a = <<>>
    /\ intervals_b = <<>>
    /\ a = <<>>
    /\ b = <<>>
    /\ i = 0
    /\ j = 0
    /\ result = <<>>

GenIdle ==
    /\ grouped_a = <<>>
    /\ grouped_b = <<>>
    /\ remaining = {}
    /\ overlaps = <<>>

UnionIdle ==
    /\ peaks_by_sample = <<>>
    /\ return_membership = FALSE
    /\ union_list = <<>>
    /\ membership = "None"

AnnIdle ==
    /\ peaks = <<>>
    /\ genes = <<>>
    /\ promoter_upstream = 0
    /\ promoter_downstream = 0
    /\ out = <<>>

----------------------------------------------------------------------------
(* interval_merge.py / union_peak.py: 1D merge *)

\* Mutants of the loop body: the merged end forgets max(); touching
\* intervals are left apart
MergeOneNoMax(acc, cur) ==
    LET last == acc[Len(acc)]
    IN IF cur[1] <= last[2]
       THEN [acc EXCEPT ![Len(acc)] = <<last[1], cur[2]>>]
       ELSE Append(acc, cur)

MergeOneStrict(acc, cur) ==
    LET last == acc[Len(acc)]
    IN IF cur[1] < last[2]
       THEN [acc EXCEPT ![Len(acc)] = <<last[1], Max(last[2], cur[2])>>]
       ELSE Append(acc, cur)

\* The loop body of the fold: one interval cur against merged[-1]
MergeOne(acc, cur) ==
    LET last == acc[Len(acc)]
    IN IF cur[1] <= last[2]
       THEN [acc EXCEPT ![Len(acc)] = <<last[1], Max(last[2], cur[2])>>]
       ELSE Append(acc, cur)

RECURSIVE MergeFold(_, _)
MergeFold(acc, rest) ==
    IF rest = <<>> THEN acc
    ELSE MergeFold(MergeOne(acc, Head(rest)), Tail(rest))

\* Mutant of the fold: cur is compared with the previous input interval
\* instead of the accumulated merged[-1]
RECURSIVE MergeFoldPrev(_, _, _)
MergeFoldPrev(acc, prev, rest) ==
    IF rest = <<>> THEN acc
    ELSE LET cur == Head(rest)
             last == acc[Len(acc)]
             nxt == IF cur[1] <= prev[2]
                    THEN [acc EXCEPT ![Len(acc)] =
                             <<last[1], Max(last[2], cur[2])>>]
                    ELSE Append(acc, cur)
         IN MergeFoldPrev(nxt, cur, Tail(rest))

merge_intervals_prev(x) ==
    IF x = <<>> THEN <<>>
    ELSE LET srt == SortByStart(x)
         IN MergeFoldPrev(<<srt[1]>>, srt[1], Tail(srt))

\* The list object after the call: sorted in place unless empty
SortedInPlace(x) == IF x = <<>> THEN x ELSE SortByStart(x)

\* interval_merge.merge_intervals: the returned list
merge_intervals(x) ==
    IF x = <<>> THEN <<>>
    ELSE LET srt == SortByStart(x)
         IN MergeFold(<<srt[1]>>, Tail(srt))

\* union_peak.merge_intervals_1d: the returned list
merge_intervals_1d(x) ==
    IF x = <<>> THEN <<>>
    ELSE LET srt == SortByStart(x)
         IN MergeFold(<<srt[1]>>, Tail(srt))

\* Dispatch on the function the caller chose
MergeFn(f, x) == IF f = "merge_intervals" THEN merge_intervals(x)
                 ELSE merge_intervals_1d(x)

MergeInputs == SeqsUpTo(Intervals1D(MergeMaxCoord), MergeMaxLen)

InitMerge ==
    /\ op = "merge"
    /\ pc = "call"
    /\ fn \in {"merge_intervals", "merge_intervals_1d"}
    /\ intervals \in MergeInputs
    /\ intervals0 = intervals
    /\ merged = <<>>
    /\ remerged = <<>>
    /\ SweepIdle
    /\ GenIdle
    /\ UnionIdle
    /\ AnnIdle

\* The call merge(intervals): sorts the caller's list, returns the fold
MergeCall ==
    /\ pc = "call"
    /\ intervals' = SortedInPlace(intervals)
    /\ merged' = MergeFn(fn, intervals)
    /\ pc' = "merged"
    /\ UNCHANGED <<fn, intervals0, remerged, notMerge>>

\* The caller feeds the returned list to the same function again
MergeAgain ==
    /\ pc = "merged"
    /\ remerged' = MergeFn(fn, merged)
    /\ merged' = SortedInPlace(merged)
    /\ pc' = "remerged"
    /\ UNCHANGED <<fn, intervals, intervals0, notMerge>>

NextMerge == MergeCall \/ MergeAgain

SpecMerge == InitMerge /\ [][NextMerge]_vars

\* C3: merge treats its input as read-only: once the call has returned, the
\* caller's list holds the same intervals in the same order as before
C3_InputReadOnly == pc # "call" => intervals = intervals0

\* C5: merge coverage: a point covered by some input interval is covered by
\* exactly one output interval, and the output covers no other point
C5_MergeCoverage ==
    pc = "merged" =>
        /\ \A p \in Covered(intervals0) :
              Cardinality({k \in DOMAIN merged : p \in Points(merged[k])}) = 1
        /\ Covered(merged) \subseteq Covered(intervals0)

\* An input with a nested interval after which the merge still has two
\* output intervals
C5_Witness ==
    /\ pc = "merged"
    /\ Len(merged) = 2
    /\ \E m, n \in DOMAIN intervals0 :
          /\ intervals0[m][1] <= intervals0[n][1]
          /\ intervals0[n][2] < intervals0[m][2]

\* C6: non-overlap invariant: the output is sorted by start and for i < j
\* output[i].end < output[j].start (no overlap, no touch)
C6_MergeDisjoint ==
    pc = "merged" =>
        \A m, n \in DOMAIN merged :
            m < n => /\ merged[m][2] < merged[n][1]
                     /\ merged[m][1] < merged[n][1]

\* An input with a touching pair and an output of two intervals
C6_Witness ==
    /\ pc = "merged"
    /\ Len(merged) = 2
    /\ \E m, n \in DOMAIN intervals0 : intervals0[m][2] = intervals0[n][1]

\* C7: merge idempotence: merging the returned list again returns an equal
\* list, and the returned list itself is left as it was
C7_MergeIdempotent ==
    pc = "remerged" => /\ remerged = merged
                       /\ merged = MergeFn(fn, intervals0)

\* A second merge of a result that came from duplicates, a touching pair
\* and a separate interval
C7_Witness ==
    /\ pc = "remerged"
    /\ Len(intervals0) = 3
    /\ Len(remerged) = 2
    /\ \E m, n \in DOMAIN intervals0 : intervals0[m][2] = intervals0[n][1]

----------------------------------------------------------------------------
(* interval_overlap.py: the two-pointer sweep over two 1D lists *)

\* Mutant: closed-interval test, touching intervals overlap
intervals_overlap_closed(x, y) == (x[1] <= y[2]) /\ (y[1] <= x[2])

\* intervals_overlap(a, b): strict overlap of half-open intervals
intervals_overlap(x, y) == (x[1] < y[2]) /\ (y[1] < x[2])

SweepInputsA == SeqsUpTo(Intervals1D(SweepMaxCoord), SweepMaxLenA)

SweepInputsB == SeqsUpTo(Intervals1D(SweepMaxCoord), SweepMaxLenB)

InitSweep ==
    /\ op = "find_overlaps_1d"
    /\ pc = "call"
    /\ intervals_a \in SweepInputsA
    /\ intervals_b \in SweepInputsB
    /\ a = <<>>
    /\ b = <<>>
    /\ i = 0
    /\ j = 0
    /\ result = <<>>
    /\ MergeIdle
    /\ GenIdle
    /\ UnionIdle
    /\ AnnIdle

\* Mutant: the caller's lists are sorted, no copies are made
SweepStartInPlace ==
    /\ pc = "call"
    /\ intervals_a' = SortByStart(intervals_a)
    /\ intervals_b' = SortByStart(intervals_b)
    /\ a' = intervals_a'
    /\ b' = intervals_b'
    /\ i' = 0
    /\ j' = 0
    /\ result' = <<>>
    /\ pc' = "loop"
    /\ UNCHANGED notSweep

\* Lines 42-50: copy both lists, sort the copies by start, reset pointers
SweepStart ==
    /\ pc = "call"
    /\ a' = SortByStart(intervals_a)
    /\ b' = SortByStart(intervals_b)
    /\ i' = 0
    /\ j' = 0
    /\ result' = <<>>
    /\ pc' = "loop"
    /\ UNCHANGED <<intervals_a, intervals_b, notSweep>>

\* Mutant: the pointer with the larger end moves
AdvanceILarger(a_int, b_int) == a_int[2] > b_int[2]

\* Mutant: ties advance j
AdvanceIStrict(a_int, b_int) == a_int[2] < b_int[2]

\* The pointer that moves: i when a[i].end <= b[j].end, else j
AdvanceI(a_int, b_int) == a_int[2] <= b_int[2]

\* Mutant: on equal ends neither pointer moves
SweepStepStall ==
    /\ pc = "loop"
    /\ i < Len(a) /\ j < Len(b)
    /\ LET a_int == a[i + 1]
           b_int == b[j + 1]
       IN /\ result' = IF intervals_overlap(a_int, b_int)
                        THEN Append(result, <<i, j>>)
                        ELSE result
          /\ IF a_int[2] < b_int[2] THEN i' = i + 1 /\ j' = j
             ELSE IF b_int[2] < a_int[2] THEN j' = j + 1 /\ i' = i
             ELSE i' = i /\ j' = j
    /\ UNCHANGED <<pc, intervals_a, intervals_b, a, b, notSweep>>

\* Mutant: the emitted indices count from 1
SweepStepOneBased ==
    /\ pc = "loop"
    /\ i < Len(a) /\ j < Len(b)
    /\ LET a_int == a[i + 1]
           b_int == b[j + 1]
       IN /\ result' = IF intervals_overlap(a_int, b_int)
                        THEN Append(result, <<i + 1, j + 1>>)
                        ELSE result
          /\ IF AdvanceI(a_int, b_int)
             THEN i' = i + 1 /\ j' = j
             ELSE j' = j + 1 /\ i' = i
    /\ UNCHANGED <<pc, intervals_a, intervals_b, a, b, notSweep>>

\* Lines 51-62: one iteration of the while loop
SweepStep ==
    /\ pc = "loop"
    /\ i < Len(a) /\ j < Len(b)
    /\ LET a_int == a[i + 1]
           b_int == b[j + 1]
       IN /\ result' = IF intervals_overlap(a_int, b_int)
                        THEN Append(result, <<i, j>>)
                        ELSE result
          /\ IF AdvanceI(a_int, b_int)
             THEN i' = i + 1 /\ j' = j
             ELSE j' = j + 1 /\ i' = i
    /\ UNCHANGED <<pc, intervals_a, intervals_b, a, b, notSweep>>

\* Lines 51, 64: the loop condition fails and result is returned
SweepReturn ==
    /\ pc = "loop"
    /\ ~(i < Len(a) /\ j < Len(b))
    /\ pc' = "done"
    /\ UNCHANGED <<sweepVars, notSweep>>

NextSweep == SweepStart \/ SweepStep \/ SweepReturn

SpecSweep == InitSweep /\ [][NextSweep]_vars

\* Number of positions of a sequence that hold x
Count(s, x) == Cardinality({k \in DOMAIN s : s[k] = x})

\* C1: sweep completeness: for lists sorted by start (their intervals may
\* overlap or nest), the returned list holds (i, j) exactly once for every
\* strictly overlapping A[i], B[j]
C1_SweepComplete ==
    (pc = "done" /\ IsSortedByStart(intervals_a) /\ IsSortedByStart(intervals_b))
    => \A x \in DOMAIN intervals_a, y \in DOMAIN intervals_b :
          intervals_overlap(intervals_a[x], intervals_b[y])
          => Count(result, <<x - 1, y - 1>>) = 1

----------------------------------------------------------------------------
(* interval_overlap.py: the chromosome-scoped sweep *)

\* Chromosome names, in ascending string order
ChromOrder == <<"chr1", "chr2">>

Chroms == Range(ChromOrder)

ChromRank(c) == CHOOSE k \in DOMAIN ChromOrder : ChromOrder[k] = c

\* Valid genomic intervals (chrom, start, end)
GenomicIntervals(hi) ==
    {<<c, iv[1], iv[2]>> : c \in Chroms, iv \in Intervals1D(hi)}

\* Mutant: every chromosome's group holds the intervals of all chromosomes
GroupWithIndexNoChrom(ivs) ==
    [c \in {ivs[k][1] : k \in DOMAIN ivs} |->
        SortByStart([k \in DOMAIN ivs |-> <<ivs[k][2], ivs[k][3], k - 1>>])]

\* Mutant: the index carried is the position inside the chromosome's group
GroupWithLocalIndex(ivs) ==
    LET OnChrom(c) == SelectSeq(ivs, LAMBDA x : x[1] = c)
    IN [c \in {ivs[k][1] : k \in DOMAIN ivs} |->
          SortByStart([k \in DOMAIN OnChrom(c) |->
                          <<OnChrom(c)[k][2], OnChrom(c)[k][3], k - 1>>])]

\* Lines 124-137: chrom -> [(start, end, original index)], sorted by start
GroupWithIndex(ivs) ==
    LET tagged == [k \in DOMAIN ivs |-> <<ivs[k][2], ivs[k][3], k - 1, ivs[k][1]>>]
        OnChrom(c) == SelectSeq(tagged, LAMBDA x : x[4] = c)
    IN [c \in {ivs[k][1] : k \in DOMAIN ivs} |->
          SortByStart([k \in DOMAIN OnChrom(c) |->
                          <<OnChrom(c)[k][1], OnChrom(c)[k][2], OnChrom(c)[k][3]>>])]

\* Lines 146-161: the while loop over one chromosome, from pointers (pi, pj),
\* appending (a_idx, b_idx) to acc
RECURSIVE GenomicSweep(_, _, _, _, _)
GenomicSweep(list_a, list_b, pi, pj, acc) ==
    IF ~(pi < Len(list_a) /\ pj < Len(list_b)) THEN acc
    ELSE LET x == list_a[pi + 1]
             y == list_b[pj + 1]
             acc2 == IF (x[1] < y[2]) /\ (y[1] < x[2])
                     THEN Append(acc, <<x[3], y[3]>>)
                     ELSE acc
         IN IF x[2] <= y[2]
            THEN GenomicSweep(list_a, list_b, pi + 1, pj, acc2)
            ELSE GenomicSweep(list_a, list_b, pi, pj + 1, acc2)

GenInputsA == SeqsUpTo(GenomicIntervals(GenMaxCoord), GenMaxLenA)

GenInputsB == SeqsUpTo(GenomicIntervals(GenMaxCoord), GenMaxLenB)

InitGenomic ==
    /\ op = "find_overlaps_genomic"
    /\ pc = "call"
    /\ intervals_a \in GenInputsA
    /\ intervals_b \in GenInputsB
    /\ a = <<>>
    /\ b = <<>>
    /\ i = 0
    /\ j = 0
    /\ result = <<>>
    /\ GenIdle
    /\ MergeIdle
    /\ UnionIdle
    /\ AnnIdle

\* Lines 124-139: group and sort both inputs; the for loop will visit the
\* set grouped_a.keys() & grouped_b.keys()
GenomicStart ==
    /\ pc = "call"
    /\ grouped_a' = GroupWithIndex(intervals_a)
    /\ grouped_b' = GroupWithIndex(intervals_b)
    /\ remaining' = DOMAIN grouped_a' \cap DOMAIN grouped_b'
    /\ overlaps' = <<>>
    /\ pc' = "chroms"
    /\ UNCHANGED <<sweepVars, notGenomic>>

\* Lines 142-161: one iteration of the for loop.  The loop iterates over a
\* set of strings, whose order is whatever the hash table gives: any
\* unvisited chromosome may come next
GenomicChrom ==
    /\ pc = "chroms"
    /\ \E chrom \in remaining :
          /\ overlaps' = GenomicSweep(grouped_a[chrom], grouped_b[chrom],
                                      0, 0, overlaps)
          /\ remaining' = remaining \ {chrom}
    /\ UNCHANGED <<pc, grouped_a, grouped_b, sweepVars, notGenomic>>

\* Line 163: the set is exhausted and overlaps is returned
GenomicReturn ==
    /\ pc = "chroms"
    /\ remaining = {}
    /\ pc' = "done"
    /\ UNCHANGED <<genVars, sweepVars, notGenomic>>

NextGenomic == GenomicStart \/ GenomicChrom \/ GenomicReturn

SpecGenomic == InitGenomic /\ [][NextGenomic]_vars

\* The pairs of the common chromosomes taken in chromosome key order
RECURSIVE InKeyOrder(_, _, _, _)
InKeyOrder(ga, gb, k, acc) ==
    IF k > Len(ChromOrder) THEN acc
    ELSE LET c == ChromOrder[k]
         IN IF c \in DOMAIN ga /\ c \in DOMAIN gb
            THEN InKeyOrder(ga, gb, k + 1, GenomicSweep(ga[c], gb[c], 0, 0, acc))
            ELSE InKeyOrder(ga, gb, k + 1, acc)

\* C4: deterministic output order: the returned sequence is a function of
\* the two input lists alone, the pairs being emitted chromosome by
\* chromosome in chromosome key order
C4_ChromKeyOrder ==
    pc = "done" =>
        overlaps = InKeyOrder(GroupWithIndex(intervals_a),
                              GroupWithIndex(intervals_b), 1, <<>>)

----------------------------------------------------------------------------
(* union_peak.py: union peaks across samples *)

\* Sample identifiers, in ascending string order
SampleOrder == <<"sampleA", "sampleB">>

Samples == Range(SampleOrder)

\* The (start, end) of the peaks of one list that lie on chromosome c, in
\* list order
OnChrom(pks, c) ==
    LET f == SelectSeq(pks, LAMBDA x : x[1] = c)
    IN [k \in DOMAIN f |-> <<f[k][2], f[k][3]>>]

\* Mutant: the chromosome key is ignored when pooling
PoolAllNoChrom(d, c) ==
    LET Cat[k \in 0..Len(d)] ==
            IF k = 0 THEN <<>>
            ELSE Cat[k - 1] \o [n \in DOMAIN d[k][2] |->
                                  <<d[k][2][n][2], d[k][2][n][3]>>]
    IN Cat[Len(d)]

\* Lines 74-78: chrom_to_all_intervals[c], filled sample by sample in the
\* dict's order
PoolAll(d, c) ==
    LET Cat[k \in 0..Len(d)] ==
            IF k = 0 THEN <<>> ELSE Cat[k - 1] \o OnChrom(d[k][2], c)
    IN Cat[Len(d)]

\* The chromosomes that occur in some sample's peaks
ChromsOf(d) == UNION {{d[k][2][n][1] : n \in DOMAIN d[k][2]} : k \in DOMAIN d}

\* Mutant: the chromosomes are taken in descending order
SortedChromsDesc(S) ==
    LET asc == SelectSeq(ChromOrder, LAMBDA c : c \in S)
    IN [k \in DOMAIN asc |-> asc[Len(asc) + 1 - k]]

\* sorted(keys): the chromosomes of S in ascending order
SortedChroms(S) == SelectSeq(ChromOrder, LAMBDA c : c \in S)

\* Lines 81-84: merge per chromosome, concatenated in sorted chromosome order
UnionList(d) ==
    LET cs == SortedChroms(ChromsOf(d))
        OfChrom(c) ==
            LET m1d == merge_intervals_1d(PoolAll(d, c))
            IN [k \in DOMAIN m1d |-> <<c, m1d[k][1], m1d[k][2]>>]
        Cat[k \in 0..Len(cs)] ==
            IF k = 0 THEN <<>> ELSE Cat[k - 1] \o OfChrom(cs[k])
    IN Cat[Len(cs)]

\* Lines 94-99: union_by_chrom[c]: (s, e, key) of the union peaks on c,
\* sorted by start
UnionByChrom(ul, c) ==
    LET f == SelectSeq(ul, LAMBDA x : x[1] = c)
    IN SortByStart([k \in DOMAIN f |-> <<f[k][2], f[k][3], f[k]>>])

\* Mutant: the union pointer moves where the sample pointer should
RECURSIVE UnionSweepSwapped(_, _, _, _, _)
UnionSweepSwapped(ints, union_chr, pi, pj, acc) ==
    IF ~(pi < Len(ints) /\ pj < Len(union_chr)) THEN acc
    ELSE LET s_int == ints[pi + 1]
             u == union_chr[pj + 1]
             acc2 == IF s_int[1] < u[2] /\ u[1] < s_int[2]
                     THEN Append(acc, u[3])
                     ELSE acc
         IN IF s_int[2] <= u[2]
            THEN UnionSweepSwapped(ints, union_chr, pi, pj + 1, acc2)
            ELSE UnionSweepSwapped(ints, union_chr, pi + 1, pj, acc2)

\* Lines 115-126: the while loop of one sample on one chromosome; returns
\* the union keys that received an append, in order
RECURSIVE UnionSweep(_, _, _, _, _)
UnionSweep(ints, union_chr, pi, pj, acc) ==
    IF ~(pi < Len(ints) /\ pj < Len(union_chr)) THEN acc
    ELSE LET s_int == ints[pi + 1]
             u == union_chr[pj + 1]
             acc2 == IF s_int[1] < u[2] /\ u[1] < s_int[2]
                     THEN Append(acc, u[3])
                     ELSE acc
         IN IF s_int[2] <= u[2]
            THEN UnionSweep(ints, union_chr, pi + 1, pj, acc2)
            ELSE UnionSweep(ints, union_chr, pi, pj + 1, acc2)

\* Mutant: the sample's intervals are swept in list order, unsorted
UnionHitsUnsorted(ints, union_chr) == UnionSweep(ints, union_chr, 0, 0, <<>>)

\* Lines 110-126: ints = sorted(ints), then the sweep from (0, 0)
UnionHits(ints, union_chr) ==
    UnionSweep(SortByStart(ints), union_chr, 0, 0, <<>>)

\* Lines 105-126: the list membership[u] before deduplication: samples in
\* dict order, one entry per hit
RawMembers(d, ul, u) ==
    LET union_chr == UnionByChrom(ul, u[1])
        HitsOf(k) == Count(UnionHits(OnChrom(d[k][2], u[1]), union_chr), u)
        Cat[k \in 0..Len(d)] ==
            IF k = 0 THEN <<>>
            ELSE Cat[k - 1] \o [n \in 1..HitsOf(k) |-> d[k][1]]
    IN Cat[Len(d)]

\* Mutant: the list is returned as accumulated
SortedSetRaw(lst) == lst

\* Lines 128-130: sorted(set(list)) for a list of sample ids
SortedSet(lst) == SelectSeq(SampleOrder, LAMBDA s : s \in Range(lst))

\* Mutant: the dict is keyed by sample
MembershipBySample(d, ul) == [k \in DOMAIN d |-> <<>>]

\* Lines 91, 105-130: the membership dict
Membership(d, ul) ==
    [u \in Range(ul) |-> SortedSet(RawMembers(d, ul, u))]

\* Dicts of at most two samples, in either insertion order
KeySeqs == {<<>>} \cup {<<s>> : s \in Samples} \cup
           {ks \in Samples \X Samples : ks[1] # ks[2]}

UnionPeaksSet == GenomicIntervals(UnionMaxCoord)

InitUnion ==
    /\ op = "union_peaks"
    /\ pc = "call"
    /\ return_membership \in BOOLEAN
    /\ \E keys \in KeySeqs, n1 \in 0..UnionMaxPeaks :
          \E n2 \in 0..(UnionMaxPeaks - n1) :
             \E l1 \in [1..n1 -> UnionPeaksSet], l2 \in [1..n2 -> UnionPeaksSet] :
                peaks_by_sample =
                    IF Len(keys) = 0 THEN <<>>
                    ELSE IF Len(keys) = 1 THEN <<<<keys[1], l1>>>>
                    ELSE <<<<keys[1], l1>>, <<keys[2], l2>>>>
    /\ union_list = <<>>
    /\ membership = "None"
    /\ MergeIdle
    /\ SweepIdle
    /\ GenIdle
    /\ AnnIdle

\* Lines 68-87: pool, merge per chromosome; return here when no membership
\* is wanted
UnionMerge ==
    /\ pc = "call"
    /\ union_list' = UnionList(peaks_by_sample)
    /\ pc' = IF return_membership THEN "membership" ELSE "done"
    /\ UNCHANGED <<peaks_by_sample, return_membership, membership, notUnion>>

\* Lines 89-132: build the membership dict and return
UnionMembership ==
    /\ pc = "membership"
    /\ membership' = Membership(peaks_by_sample, union_list)
    /\ pc' = "done"
    /\ UNCHANGED <<peaks_by_sample, return_membership, union_list, notUnion>>

NextUnion == UnionMerge \/ UnionMembership

SpecUnion == InitUnion /\ [][NextUnion]_vars

\* The peaks of the sample at dict position k
PeaksOf(k) == peaks_by_sample[k][2]

\* Peak pk (chrom, start, end) strictly overlaps union peak u
OverlapsPeak(pk, u) == pk[1] = u[1] /\ pk[2] < u[3] /\ u[2] < pk[3]

\* C2: union membership exactness: sample s is in membership[u] iff one of
\* its original intervals on u's chromosome strictly overlaps u
C2_MembershipExact ==
    (pc = "done" /\ return_membership) =>
        \A k \in DOMAIN peaks_by_sample, u \in Range(union_list) :
            (peaks_by_sample[k][1] \in Range(membership[u]))
            <=> (\E n \in DOMAIN PeaksOf(k) : OverlapsPeak(PeaksOf(k)[n], u))

\* A sample whose own two intervals nest, listed with the inner one first
\* or last, next to a second sample that contributes another union peak
C2_Witness ==
    /\ pc = "done" /\ return_membership
    /\ Len(peaks_by_sample) = 2
    /\ Len(union_list) = 2
    /\ \E k \in DOMAIN peaks_by_sample :
          /\ Len(PeaksOf(k)) = 2
          /\ PeaksOf(k)[1][1] = PeaksOf(k)[2][1]
          /\ PeaksOf(k)[1][2] <= PeaksOf(k)[2][2]
          /\ PeaksOf(k)[2][3] < PeaksOf(k)[1][3]
          /\ \E u \in Range(union_list) : membership[u] = <<peaks_by_sample[k][1]>>
    /\ \A u \in Range(union_list) : Len(membership[u]) = 1

\* The points of chromosome c covered by a list of (chrom, start, end)
CoveredOn(pks, c) ==
    UNION {Points(<<pks[k][2], pks[k][3]>>) : k \in {n \in DOMAIN pks : pks[n][1] = c}}

\* All input peaks, as a set
AllPeaks == UNION {Range(PeaksOf(k)) : k \in DOMAIN peaks_by_sample}

\* C10: the union peaks of chromosome c cover exactly the points covered by
\* the input intervals of all samples on c, and two same-chromosome input
\* intervals that touch lie inside one union peak
C10_UnionCoverage ==
    pc = "done" =>
        /\ \A c \in Chroms :
              CoveredOn(union_list, c) =
                 UNION {CoveredOn(PeaksOf(k), c) : k \in DOMAIN peaks_by_sample}
        /\ \A p \in AllPeaks, q \in AllPeaks :
              (p[1] = q[1] /\ p[3] = q[2]) =>
                 \E u \in Range(union_list) :
                    /\ u[1] = p[1]
                    /\ u[2] <= p[2] /\ q[3] <= u[3]

\* Two samples whose intervals touch on one chromosome while another
\* chromosome holds an interval with overlapping coordinates
C10_Witness ==
    /\ pc = "done"
    /\ Len(peaks_by_sample) = 2
    /\ \E p \in Range(PeaksOf(1)), q \in Range(PeaksOf(2)) :
          p[1] = q[1] /\ p[3] = q[2]
    /\ \E p \in AllPeaks, q \in AllPeaks :
          p[1] # q[1] /\ p[2] < q[3] /\ q[2] < p[3]
    /\ Len(union_list) = 2

\* C11: order of the union list: the union peaks come chromosome by
\* chromosome in ascending chromosome order and, inside one chromosome, in
\* strictly ascending start order, whatever the order of the samples in the
\* mapping and of the peaks inside each sample
C11_UnionOrder ==
    pc = "done" =>
        \A m, n \in DOMAIN union_list :
            m < n =>
                \/ ChromRank(union_list[m][1]) < ChromRank(union_list[n][1])
                \/ /\ union_list[m][1] = union_list[n][1]
                   /\ union_list[m][2] < union_list[n][2]

\* The first sample met holds only the last chromosome, in descending start
\* order, and the union has two peaks there after one on the first chromosome
C11_Witness ==
    /\ pc = "done"
    /\ Len(peaks_by_sample) = 2
    /\ Len(PeaksOf(1)) = 2
    /\ PeaksOf(1)[1][1] = ChromOrder[2] /\ PeaksOf(1)[2][1] = ChromOrder[2]
    /\ PeaksOf(1)[2][2] < PeaksOf(1)[1][2]
    /\ Len(union_list) = 3
    /\ union_list[1][1] = ChromOrder[1]
    /\ union_list[2][1] = ChromOrder[2]

----------------------------------------------------------------------------
(* peak_annotation.py: promoter / gene_body / intergenic annotation *)

\* str(n) for an integer: decimal digits, "-" in front when negative
Digits == <<"0", "1", "2", "3", "4", "5", "6", "7", "8", "9">>

RECURSIVE StrNat(_)
StrNat(n) == IF n < 10 THEN Digits[n + 1]
             ELSE StrNat(n \div 10) \o Digits[(n % 10) + 1]

Str(n) == IF n < 0 THEN "-" \o StrNat(-n) ELSE StrNat(n)

\* Gene names, by position in the gene list
GeneNames == <<"g1", "g2", "g3", "g4">>

\* read_gtf_genes lines 100-106: the TSS of a gene
TssOf(start, end, strand) == IF strand = "+" THEN start ELSE end - 1

\* GeneRecord values (gene_name is set from the position in the list)
GeneShapes(hi) ==
    {[chrom |-> c, start |-> iv[1], end |-> iv[2], strand |-> sd,
      gene_name |-> "", tss |-> TssOf(iv[1], iv[2], sd)] :
        c \in Chroms, iv \in Intervals1D(hi), sd \in {"+", "-"}}

NameGenes(shapes) ==
    [k \in DOMAIN shapes |-> [shapes[k] EXCEPT !.gene_name = GeneNames[k]]]

\* Mutant: the strand is ignored, upstream always lies to the left
build_promoters_unstranded(gs, upstream, downstream) ==
    LET Window(g) ==
            [chrom |-> g.chrom, start |-> Max(0, g.tss - upstream),
             end |-> g.tss + downstream,
             gene_name |-> g.gene_name, tss |-> g.tss]
        all == [k \in DOMAIN gs |-> Window(gs[k])]
    IN SelectSeq(all, LAMBDA f : f.end > f.start)

\* Lines 137-154: one promoter window per gene, dropped when empty
build_promoters(gs, upstream, downstream) ==
    LET Window(g) ==
            IF g.strand = "+"
            THEN [chrom |-> g.chrom, start |-> Max(0, g.tss - upstream),
                  end |-> g.tss + downstream,
                  gene_name |-> g.gene_name, tss |-> g.tss]
            ELSE [chrom |-> g.chrom, start |-> Max(0, g.tss - downstream),
                  end |-> g.tss + upstream,
                  gene_name |-> g.gene_name, tss |-> g.tss]
        all == [k \in DOMAIN gs |-> Window(gs[k])]
    IN SelectSeq(all, LAMBDA f : f.end > f.start)

\* Lines 299-300: every gene span as a FeatureInterval
gene_bodies(gs) ==
    [k \in DOMAIN gs |-> [chrom |-> gs[k].chrom, start |-> gs[k].start,
                          end |-> gs[k].end, gene_name |-> gs[k].gene_name,
                          tss |-> gs[k].tss]]

\* Lines 157-163: chrom -> features, stably sorted by start
group_by_chrom_intervals(feats) ==
    [c \in {feats[k].chrom : k \in DOMAIN feats} |->
        LET f == SelectSeq(feats, LAMBDA x : x.chrom = c)
            perm == SortPerm([k \in DOMAIN f |-> f[k].start])
        IN [k \in DOMAIN f |-> f[perm[k]]]]

\* Lines 166-175: chrom -> (start, end, peak index), sorted by start
group_by_chrom_peaks(pks) == GroupWithIndex(pks)

\* Lines 223-224: advance j past the features that end at or before pstart
RECURSIVE AdvanceJ(_, _, _)
AdvanceJ(f_list, pj, pstart) ==
    IF pj < Len(f_list) /\ f_list[pj + 1].end <= pstart
    THEN AdvanceJ(f_list, pj + 1, pstart)
    ELSE pj

\* Mutant: the scan keeps every feature it passes
RECURSIVE ScanCandNoTest(_, _, _, _, _)
ScanCandNoTest(f_list, pk, pstart, pend, cand) ==
    IF pk < Len(f_list) /\ f_list[pk + 1].start < pend
    THEN ScanCandNoTest(f_list, pk + 1, pstart, pend, Append(cand, f_list[pk + 1]))
    ELSE cand

\* Lines 227-232: scan from k while feature.start < pend, keeping overlaps
RECURSIVE ScanCand(_, _, _, _, _)
ScanCand(f_list, pk, pstart, pend, cand) ==
    IF pk < Len(f_list) /\ f_list[pk + 1].start < pend
    THEN ScanCand(f_list, pk + 1, pstart, pend,
                  IF pstart < f_list[pk + 1].end /\ f_list[pk + 1].start < pend
                  THEN Append(cand, f_list[pk + 1])
                  ELSE cand)
    ELSE cand

\* Lines 220-235: the peaks of one chromosome, from peak n with pointer pj;
\* hits maps a peak index to its non-empty candidate list
RECURSIVE SweepPeaks(_, _, _, _, _)
SweepPeaks(p_list, f_list, n, pj, hits) ==
    IF n > Len(p_list) THEN hits
    ELSE LET pstart == p_list[n][1]
             pend == p_list[n][2]
             pidx == p_list[n][3]
             j2 == AdvanceJ(f_list, pj, pstart)
             cand == ScanCand(f_list, j2, pstart, pend, <<>>)
             hits2 == IF cand = <<>> THEN hits
                      ELSE [x \in DOMAIN hits \cup {pidx} |->
                               IF x = pidx THEN cand ELSE hits[x]]
         IN SweepPeaks(p_list, f_list, n + 1, j2, hits2)

\* Lines 212-237: the chromosomes present on both sides, one after the
\* other; no peak index belongs to two chromosomes, so the order in which
\* the set is visited does not show in the dict's content
annotate_overlaps(pks, feature_grouped) ==
    LET peak_grouped == group_by_chrom_peaks(pks)
        Visit[k \in 0..Len(ChromOrder)] ==
            IF k = 0 THEN <<>>
            ELSE IF ChromOrder[k] \in DOMAIN peak_grouped
                    /\ ChromOrder[k] \in DOMAIN feature_grouped
                 THEN SweepPeaks(peak_grouped[ChromOrder[k]],
                                 feature_grouped[ChromOrder[k]], 1, 0, Visit[k - 1])
                 ELSE Visit[k - 1]
    IN Visit[Len(ChromOrder)]

\* best_dist starts at 10**18 (lines 192 and 269), a value beyond the
\* integers of the model: NoBest stands for it, and no distance equals it
\* because a distance is an absolute value
NoBest == -1

\* dist < best_dist (lines 197 and 276): every distance is below the
\* starting value 10**18, two distances compare as integers
DistBelow(dist, best_dist) == best_dist = NoBest \/ dist < best_dist

\* dist <= best_dist, the comparison of the mutant below
DistAtMost(dist, best_dist) == best_dist = NoBest \/ dist <= best_dist

\* Mutant: the absolute distance is returned in place of the signed one
RECURSIVE BestFromAbs(_, _, _, _)
BestFromAbs(peak_center, candidates, n, best) ==
    IF n > Len(candidates) THEN <<best[1], best[3]>>
    ELSE LET signed == peak_center - candidates[n].tss
             dist == Abs(signed)
         IN BestFromAbs(peak_center, candidates, n + 1,
                        IF DistBelow(dist, best[2])
                        THEN <<candidates[n].gene_name, dist, dist>>
                        ELSE best)

\* Mutant: a later candidate at equal distance replaces the earlier one
RECURSIVE BestFromLast(_, _, _, _)
BestFromLast(peak_center, candidates, n, best) ==
    IF n > Len(candidates) THEN <<best[1], best[3]>>
    ELSE LET signed == peak_center - candidates[n].tss
             dist == Abs(signed)
         IN BestFromLast(peak_center, candidates, n + 1,
                         IF DistAtMost(dist, best[2])
                         THEN <<candidates[n].gene_name, dist, signed>>
                         ELSE best)

\* Lines 191-201: the candidate with the strictly smallest |center - tss|,
\* as <<gene_name, signed distance>>
RECURSIVE BestFrom(_, _, _, _)
BestFrom(peak_center, candidates, n, best) ==
    IF n > Len(candidates) THEN <<best[1], best[3]>>
    ELSE LET signed == peak_center - candidates[n].tss
             dist == Abs(signed)
         IN BestFrom(peak_center, candidates, n + 1,
                     IF DistBelow(dist, best[2])
                     THEN <<candidates[n].gene_name, dist, signed>>
                     ELSE best)

\* Mutant: the first candidate is taken, whatever its distance
assign_first_candidate(peak_center, candidates) ==
    IF candidates = <<>> THEN <<"", 0>>
    ELSE <<candidates[1].gene_name, peak_center - candidates[1].tss>>

assign_best_gene_by_tss_distance(peak_center, candidates) ==
    BestFrom(peak_center, candidates, 1, <<"", NoBest, 0>>)

\* Mutant: every chromosome is given the TSS of all genes
build_tss_index_any_chrom(gs) ==
    [c \in (IF gs = <<>> THEN {} ELSE Chroms) |->
        LET perm == SortPerm([k \in DOMAIN gs |-> gs[k].tss])
        IN <<[k \in DOMAIN gs |-> gs[perm[k]].tss],
             [k \in DOMAIN gs |-> gs[perm[k]].gene_name]>>]

\* Lines 240-253: chrom -> <<sorted tss list, aligned names>>
build_tss_index(gs) ==
    [c \in {gs[k].chrom : k \in DOMAIN gs} |->
        LET arr == SelectSeq(gs, LAMBDA g : g.chrom = c)
            perm == SortPerm([k \in DOMAIN arr |-> arr[k].tss])
        IN <<[k \in DOMAIN arr |-> arr[perm[k]].tss],
             [k \in DOMAIN arr |-> arr[perm[k]].gene_name]>>]

\* bisect.bisect_left on a sorted list: the number of items below pos
bisect_left(lst, pos) == Cardinality({k \in DOMAIN lst : lst[k] < pos})

\* Mutant: the candidate at the insertion point is tried before the one
\* below it
nearest_tss_upper_first(tss_list, name_list, pos) ==
    IF tss_list = <<>> THEN <<"", 0>>
    ELSE LET k == bisect_left(tss_list, pos)
             Try(cand, best) ==
                 IF 0 <= cand /\ cand < Len(tss_list)
                    /\ DistBelow(Abs(pos - tss_list[cand + 1]), best[2])
                 THEN <<cand, Abs(pos - tss_list[cand + 1]),
                        pos - tss_list[cand + 1]>>
                 ELSE best
             best == Try(k - 1, Try(k, <<-1, NoBest, 0>>))
         IN IF best[1] = -1 THEN <<"", 0>>
            ELSE <<name_list[best[1] + 1], best[3]>>

\* Lines 265-283: the nearer of the two TSS around the insertion point
nearest_tss(tss_list, name_list, pos) ==
    IF tss_list = <<>> THEN <<"", 0>>
    ELSE LET k == bisect_left(tss_list, pos)
             Try(cand, best) ==
                 IF 0 <= cand /\ cand < Len(tss_list)
                    /\ DistBelow(Abs(pos - tss_list[cand + 1]), best[2])
                 THEN <<cand, Abs(pos - tss_list[cand + 1]),
                        pos - tss_list[cand + 1]>>
                 ELSE best
             best == Try(k, Try(k - 1, <<-1, NoBest, 0>>))
         IN IF best[1] = -1 THEN <<"", 0>>
            ELSE <<name_list[best[1] + 1], best[3]>>

\* Mutants: the gene body is tested before the promoter; peak ids count
\* from 1
annotation_gene_first(idx, promoter_hits, gene_hits) ==
    IF idx \in DOMAIN gene_hits THEN "gene_body"
    ELSE IF idx \in DOMAIN promoter_hits THEN "promoter"
    ELSE "intergenic"

peak_id_one_based(idx) == "peak_" \o Str(idx + 1)

\* Lines 312-324: the category of peak idx
annotation_of(idx, promoter_hits, gene_hits) ==
    IF idx \in DOMAIN promoter_hits THEN "promoter"
    ELSE IF idx \in DOMAIN gene_hits THEN "gene_body"
    ELSE "intergenic"

\* Line 333: f"peak_{idx}"
peak_id(idx) == "peak_" \o Str(idx)

\* Lines 295-341: the records, one per peak in enumerate(peaks) order
annotate_peaks(pks, gs, upstream, downstream) ==
    LET promoter_grouped ==
            group_by_chrom_intervals(build_promoters(gs, upstream, downstream))
        gene_grouped == group_by_chrom_intervals(gene_bodies(gs))
        promoter_hits == annotate_overlaps(pks, promoter_grouped)
        gene_hits == annotate_overlaps(pks, gene_grouped)
        tss_index == build_tss_index(gs)
        Rec(idx) ==
            LET chrom == pks[idx + 1][1]
                start == pks[idx + 1][2]
                end == pks[idx + 1][3]
                center == (start + end) \div 2
                annotation == annotation_of(idx, promoter_hits, gene_hits)
                gd == IF annotation = "promoter"
                      THEN assign_best_gene_by_tss_distance(center, promoter_hits[idx])
                      ELSE IF annotation = "gene_body"
                      THEN assign_best_gene_by_tss_distance(center, gene_hits[idx])
                      ELSE IF chrom \in DOMAIN tss_index
                      THEN nearest_tss(tss_index[chrom][1], tss_index[chrom][2], center)
                      ELSE <<"", 0>>
            IN [peak_id |-> peak_id(idx), chrom |-> chrom,
                start |-> Str(start), end |-> Str(end),
                annotation |-> annotation, gene |-> gd[1],
                distance_to_TSS |-> Str(gd[2])]
    IN [k \in DOMAIN pks |-> Rec(k - 1)]

AnnPeaksSet == GenomicIntervals(AnnMaxCoord)

InitAnnotate ==
    /\ op = "annotate_peaks"
    /\ pc = "call"
    /\ \E np \in 0..AnnMaxPeaks :
          \E ng \in 0..Min(AnnMaxGenes, AnnMaxTotal - np) :
             /\ peaks \in [1..np -> AnnPeaksSet]
             /\ \E shapes \in [1..ng -> GeneShapes(AnnMaxCoord)] :
                   genes = NameGenes(shapes)
    /\ promoter_upstream \in 0..AnnMaxFlank
    /\ promoter_downstream \in 0..AnnMaxFlank
    /\ out = <<>>
    /\ MergeIdle
    /\ SweepIdle
    /\ GenIdle
    /\ UnionIdle

\* The call annotate_peaks(peaks, genes, promoter_upstream, promoter_downstream)
AnnotateCall ==
    /\ pc = "call"
    /\ out' = annotate_peaks(peaks, genes, promoter_upstream, promoter_downstream)
    /\ pc' = "done"
    /\ UNCHANGED <<peaks, genes, promoter_upstream, promoter_downstream,
                   notAnnotate>>

NextAnnotate == AnnotateCall

SpecAnnotate == InitAnnotate /\ [][NextAnnotate]_vars

\* The promoter windows of the call's genes
PromoterWindows == build_promoters(genes, promoter_upstream, promoter_downstream)

\* Peak pk (chrom, start, end) strictly overlaps [lo, hi) on chromosome c
PeakOverlaps(pk, c, lo, hi) == pk[1] = c /\ pk[2] < hi /\ lo < pk[3]

HitsPromoter(pk) ==
    \E n \in DOMAIN PromoterWindows :
        PeakOverlaps(pk, PromoterWindows[n].chrom,
                     PromoterWindows[n].start, PromoterWindows[n].end)

HitsGeneBody(pk) ==
    \E n \in DOMAIN genes :
        PeakOverlaps(pk, genes[n].chrom, genes[n].start, genes[n].end)

\* C8: annotation category precedence: promoter iff the peak strictly
\* overlaps a promoter window on its chromosome; gene_body iff it overlaps
\* no promoter window but some gene span; intergenic otherwise
C8_CategoryPrecedence ==
    pc = "done" =>
        \A k \in DOMAIN peaks :
            out[k].annotation =
                IF HitsPromoter(peaks[k]) THEN "promoter"
                ELSE IF HitsGeneBody(peaks[k]) THEN "gene_body"
                ELSE "intergenic"

\* A peak on the promoter window of one gene, off that gene's body, and on
\* the body of another gene: annotated promoter
C8_Witness ==
    /\ pc = "done"
    /\ \E k \in DOMAIN peaks, n \in DOMAIN PromoterWindows, m \in DOMAIN genes :
          /\ PromoterWindows[n].gene_name # genes[m].gene_name
          /\ PeakOverlaps(peaks[k], PromoterWindows[n].chrom,
                          PromoterWindows[n].start, PromoterWindows[n].end)
          /\ PeakOverlaps(peaks[k], genes[m].chrom, genes[m].start, genes[m].end)
          /\ \A g \in DOMAIN genes :
                PeakOverlaps(peaks[k], genes[g].chrom, genes[g].start, genes[g].end)
                => g = m
          /\ out[k].annotation = "promoter"

\* C9: one record per input peak, in input order: record k carries
\* peak_id peak_k and the chrom, start and end of peaks[k]
C9_OneRecordPerPeak ==
    pc = "done" =>
        /\ Len(out) = Len(peaks)
        /\ \A k \in DOMAIN peaks :
              /\ out[k].peak_id = "peak_" \o Str(k - 1)
              /\ out[k].chrom = peaks[k][1]
              /\ out[k].start = Str(peaks[k][2])
              /\ out[k].end = Str(peaks[k][3])

\* Two peaks of one chromosome given in descending start order, with a
\* gene on that chromosome so that the sorted sweep runs
C9_Witness ==
    /\ pc = "done"
    /\ Len(peaks) = 2
    /\ peaks[1][1] = peaks[2][1]
    /\ peaks[2][2] < peaks[1][2]
    /\ \E n \in DOMAIN genes : genes[n].chrom = peaks[1][1]
    /\ out[1].annotation # out[2].annotation

\* Line 310: the center of peak pk (chrom, start, end)
Center(pk) == (pk[2] + pk[3]) \div 2

\* Feature f (promoter window or gene span) strictly overlaps peak pk
FeatureHits(pk, f) == PeakOverlaps(pk, f.chrom, f.start, f.end)

\* The features among which the gene of a record of category cat is chosen
CategoryFeatures(cat) ==
    IF cat = "promoter" THEN PromoterWindows ELSE gene_bodies(genes)

\* C12: closest-TSS assignment inside an overlap category: the gene of a
\* promoter (resp. gene_body) record is one whose promoter window (resp.
\* gene span) strictly overlaps the peak and whose TSS is at minimal
\* |center - tss| among all overlapping features of that category
C12_ClosestTss ==
    pc = "done" =>
        \A k \in DOMAIN peaks :
            out[k].annotation \in {"promoter", "gene_body"} =>
                LET fs == CategoryFeatures(out[k].annotation)
                    c == Center(peaks[k])
                IN \E n \in DOMAIN fs :
                      /\ fs[n].gene_name = out[k].gene
                      /\ FeatureHits(peaks[k], fs[n])
                      /\ \A m \in DOMAIN fs :
                            FeatureHits(peaks[k], fs[m])
                            => Abs(c - fs[n].tss) <= Abs(c - fs[m].tss)

\* A promoter peak on two windows; the window met first in the sorted
\* feature list is the farther one and the nearer gene is assigned
C12_Witness ==
    /\ pc = "done"
    /\ \E k \in DOMAIN peaks, n, m \in DOMAIN PromoterWindows :
          /\ n < m
          /\ PromoterWindows[n].start <= PromoterWindows[m].start
          /\ FeatureHits(peaks[k], PromoterWindows[n])
          /\ FeatureHits(peaks[k], PromoterWindows[m])
          /\ Abs(Center(peaks[k]) - PromoterWindows[m].tss)
                < Abs(Center(peaks[k]) - PromoterWindows[n].tss)
          /\ out[k].annotation = "promoter"
          /\ out[k].gene = PromoterWindows[m].gene_name

\* Feature n comes before feature m in the chromosome's list sorted by
\* start: smaller start, or equal start and earlier in gene input order
Precedes(fs, n, m) ==
    \/ fs[n].start < fs[m].start
    \/ (fs[n].start = fs[m].start /\ n < m)

\* C13: tie-break inside an overlap category: among the overlapping
\* candidates at minimal |center - tss| the assigned gene is the one that
\* comes first in the feature list sorted by start (equal starts in gene
\* input order); a later candidate at equal distance never replaces it
C13_TieFirstInList ==
    pc = "done" =>
        \A k \in DOMAIN peaks :
            out[k].annotation \in {"promoter", "gene_body"} =>
                LET fs == CategoryFeatures(out[k].annotation)
                    c == Center(peaks[k])
                IN \E n \in DOMAIN fs :
                      /\ fs[n].gene_name = out[k].gene
                      /\ FeatureHits(peaks[k], fs[n])
                      /\ \A m \in DOMAIN fs :
                            (m # n /\ FeatureHits(peaks[k], fs[m])
                               /\ Abs(c - fs[m].tss) <= Abs(c - fs[n].tss))
                            => /\ Abs(c - fs[m].tss) = Abs(c - fs[n].tss)
                               /\ Precedes(fs, n, m)

\* A gene_body peak whose two overlapping genes have TSS at equal distance
\* on either side of the center; the gene given second starts first and
\* is assigned
C13_Witness ==
    /\ pc = "done"
    /\ Len(genes) = 2
    /\ \E k \in DOMAIN peaks :
          /\ out[k].annotation = "gene_body"
          /\ FeatureHits(peaks[k], genes[1])
          /\ FeatureHits(peaks[k], genes[2])
          /\ genes[1].tss # genes[2].tss
          /\ Abs(Center(peaks[k]) - genes[1].tss)
                = Abs(Center(peaks[k]) - genes[2].tss)
          /\ genes[2].start < genes[1].start
          /\ out[k].gene = genes[2].gene_name

\* Calls for the nearest-TSS fallback: one peak on either chromosome, up to
\* NearMaxGenes genes on the first chromosome, no promoter flank
InitFallback ==
    /\ op = "annotate_peaks"
    /\ pc = "call"
    /\ peaks \in [1..1 -> GenomicIntervals(NearMaxCoord)]
    /\ \E ng \in 0..NearMaxGenes :
          \E shapes \in [1..ng -> {g \in GeneShapes(NearMaxCoord) :
                                     g.chrom = ChromOrder[1]}] :
             genes = NameGenes(shapes)
    /\ promoter_upstream = 0
    /\ promoter_downstream = 0
    /\ out = <<>>
    /\ MergeIdle
    /\ SweepIdle
    /\ GenIdle
    /\ UnionIdle

SpecFallback == InitFallback /\ [][NextAnnotate]_vars

\* The positions of the genes on chromosome c
GenesOn(c) == {n \in DOMAIN genes : genes[n].chrom = c}

\* C14: intergenic fallback: for an intergenic peak on a chromosome that
\* carries a gene, the assigned gene's TSS is at minimal |center - tss|
\* among all genes of the chromosome, and of two TSS at that distance on
\* either side of the center the smaller coordinate is chosen
C14_NearestTss ==
    pc = "done" =>
        \A k \in DOMAIN peaks :
            (out[k].annotation = "intergenic" /\ GenesOn(peaks[k][1]) # {}) =>
                LET c == Center(peaks[k])
                IN \E n \in GenesOn(peaks[k][1]) :
                      /\ genes[n].gene_name = out[k].gene
                      /\ \A m \in GenesOn(peaks[k][1]) :
                            /\ Abs(c - genes[n].tss) <= Abs(c - genes[m].tss)
                            /\ Abs(c - genes[n].tss) = Abs(c - genes[m].tss)
                               => genes[n].tss <= genes[m].tss

\* An intergenic peak between two genes whose TSS lie at equal distance
\* below and above the center, with a third gene farther away given
\* between them; the gene below is assigned
C14_Witness ==
    /\ pc = "done"
    /\ Len(genes) = 3
    /\ genes[2].tss < genes[3].tss /\ genes[3].tss < genes[1].tss
    /\ \E k \in DOMAIN peaks, n, m \in DOMAIN genes :
          /\ genes[n].chrom = peaks[k][1] /\ genes[m].chrom = peaks[k][1]
          /\ out[k].annotation = "intergenic"
          /\ genes[n].tss < Center(peaks[k])
          /\ Center(peaks[k]) < genes[m].tss
          /\ Center(peaks[k]) - genes[n].tss = genes[m].tss - Center(peaks[k])
          /\ out[k].gene = genes[n].gene_name

\* C15: signed distance: a record with a non-empty gene carries
\* distance_to_TSS = center - tss of the assigned gene, center being
\* (start + end) // 2, negative when the center lies below the TSS, in all
\* three categories (the record holds the number as its decimal string)
C15_SignedDistance ==
    pc = "done" =>
        \A k \in DOMAIN peaks :
            out[k].gene # "" =>
                \E n \in DOMAIN genes :
                    /\ genes[n].gene_name = out[k].gene
                    /\ out[k].distance_to_TSS
                          = Str(Center(peaks[k]) - genes[n].tss)

\* A gene_body peak of odd start + end whose center lies below the TSS of
\* the assigned gene
C15_Witness ==
    /\ pc = "done"
    /\ \E k \in DOMAIN peaks, n \in DOMAIN genes :
          /\ out[k].annotation = "gene_body"
          /\ out[k].gene = genes[n].gene_name
          /\ (peaks[k][2] + peaks[k][3]) % 2 = 1
          /\ Center(peaks[k]) < genes[n].tss
          /\ out[k].distance_to_TSS
                = "-" \o Str(genes[n].tss - Center(peaks[k]))

\* C16: a peak whose chromosome carries no gene is annotated intergenic
\* with gene "" and distance_to_TSS 0, whatever genes the other
\* chromosomes carry
C16_NoGeneOnChrom ==
    pc = "done" =>
        \A k \in DOMAIN peaks :
            GenesOn(peaks[k][1]) = {} =>
                /\ out[k].annotation = "intergenic"
                /\ out[k].gene = ""
                /\ out[k].distance_to_TSS = "0"

\* A peak on a chromosome without genes while a gene of another chromosome
\* spans the same coordinates and its promoter window is not empty
C16_Witness ==
    /\ pc = "done"
    /\ \E k \in DOMAIN peaks, n \in DOMAIN genes :
          /\ GenesOn(peaks[k][1]) = {}
          /\ genes[n].start < peaks[k][3] /\ peaks[k][2] < genes[n].end
          /\ \E w \in DOMAIN PromoterWindows :
                /\ PromoterWindows[w].start < peaks[k][3]
                /\ peaks[k][2] < PromoterWindows[w].end
          /\ out[k].gene = ""

----------------------------------------------------------------------------
(* The caller chooses an operation *)

InitIntervals == InitMerge \/ InitSweep \/ InitGenomic

NextIntervals ==
    \/ (op = "merge" /\ NextMerge)
    \/ (op = "find_overlaps_1d" /\ NextSweep)
    \/ (op = "find_overlaps_genomic" /\ NextGenomic)

\* Merge and the two sweeps
SpecIntervals == InitIntervals /\ [][NextIntervals]_vars

InitAll == InitIntervals \/ InitUnion \/ InitAnnotate

NextAll ==
    \/ NextIntervals
    \/ (op = "union_peaks" /\ NextUnion)
    \/ (op = "annotate_peaks" /\ NextAnnotate)

\* All five operations
SpecAll == InitAll /\ [][NextAll]_vars

\* The call has returned
Returned == pc \in {"merged", "remerged", "done"}

\* C17: empty collections give empty results: merge of [] is []; a sweep
\* with either list empty returns []; union_peaks without samples or with
\* only empty peak lists returns an empty union list, and an empty
\* membership dict when one is requested; annotate_peaks without peaks
\* returns []; annotate_peaks without genes returns one intergenic record
\* per peak with gene "" and distance 0
C17_EmptyInputs ==
    Returned =>
        /\ (op = "merge" /\ intervals0 = <<>>) => merged = <<>>
        /\ (op = "find_overlaps_1d" /\ (intervals_a = <<>> \/ intervals_b = <<>>))
              => result = <<>>
        /\ (op = "find_overlaps_genomic"
               /\ (intervals_a = <<>> \/ intervals_b = <<>>))
              => overlaps = <<>>
        /\ (op = "union_peaks" /\ AllPeaks = {})
              => /\ union_list = <<>>
                 /\ return_membership => DOMAIN membership = {}
        /\ (op = "annotate_peaks" /\ peaks = <<>>) => out = <<>>
        /\ (op = "annotate_peaks" /\ genes = <<>>)
              => /\ Len(out) = Len(peaks)
                 /\ \A k \in DOMAIN out :
                       /\ out[k].annotation = "intergenic"
                       /\ out[k].gene = ""
                       /\ out[k].distance_to_TSS = "0"

\* union_peaks has returned for two samples whose peak lists are both
\* empty, membership requested
C17_Witness ==
    /\ op = "union_peaks" /\ pc = "done"
    /\ return_membership
    /\ Len(peaks_by_sample) = 2
    /\ AllPeaks = {}
    /\ union_list = <<>>

\* x.end = y.start
Touching(x, y) == x[2] = y[1]

\* C18: boundary asymmetry: two intervals with a.end = b.start do not
\* overlap, in either argument order, while merge of [a, b] returns the
\* single interval (a.start, b.end); the sweeps report no touching pair and
\* the merge leaves no touching pair in its output
C18_BoundaryAsymmetry ==
    /\ (op = "merge" /\ Returned /\ Len(intervals0) = 2
          /\ Touching(intervals0[1], intervals0[2]))
       => /\ ~intervals_overlap(intervals0[1], intervals0[2])
          /\ ~intervals_overlap(intervals0[2], intervals0[1])
          /\ merged = <<<<intervals0[1][1], intervals0[2][2]>>>>
    /\ (op = "merge" /\ Returned)
       => \A m, n \in DOMAIN merged : ~Touching(merged[m], merged[n])
    /\ op = "find_overlaps_1d"
       => \A x \in Range(result) :
             /\ ~Touching(a[x[1] + 1], b[x[2] + 1])
             /\ ~Touching(b[x[2] + 1], a[x[1] + 1])
    /\ op = "find_overlaps_genomic"
       => \A x \in Range(overlaps) :
             LET p == intervals_a[x[1] + 1]
                 q == intervals_b[x[2] + 1]
             IN /\ ~Touching(<<p[2], p[3]>>, <<q[2], q[3]>>)
                /\ ~Touching(<<q[2], q[3]>>, <<p[2], p[3]>>)

\* merge has returned one interval for a list [a, b] with a.end = b.start
C18_Witness ==
    /\ op = "merge" /\ pc = "merged"
    /\ Len(intervals0) = 2
    /\ Touching(intervals0[1], intervals0[2])
    /\ Len(merged) = 1

\* C19: sweep soundness: for lists A and B sorted by start, every returned
\* pair (i, j) has 0 <= i < |A|, 0 <= j < |B| and A[i] strictly overlaps
\* B[j], the indices being those of the caller's lists
C19_SweepSound ==
    (pc = "done" /\ IsSortedByStart(intervals_a) /\ IsSortedByStart(intervals_b))
    => \A x \in Range(result) :
          /\ 0 <= x[1] /\ x[1] < Len(intervals_a)
          /\ 0 <= x[2] /\ x[2] < Len(intervals_b)
          /\ intervals_overlap(intervals_a[x[1] + 1], intervals_b[x[2] + 1])

\* Sorted lists of two intervals each, two pairs returned, and a pair of
\* intervals that only touch
C19_Witness ==
    /\ pc = "done"
    /\ Len(intervals_a) = 2 /\ Len(intervals_b) = 2
    /\ IsSortedByStart(intervals_a) /\ IsSortedByStart(intervals_b)
    /\ Len(result) = 2
    /\ \E m \in DOMAIN intervals_a, n \in DOMAIN intervals_b :
          Touching(intervals_a[m], intervals_b[n])

\* No value occurs at two positions of s
NoDup(s) == \A m, n \in DOMAIN s : m # n => s[m] # s[n]

\* C20: sweep output uniqueness: the pairs emitted so far lie strictly
\* behind the pointer pair (i, j), so no pair is tested or emitted twice,
\* and the result of either sweep holds no duplicate pair
C20_UniquePairs ==
    /\ op = "find_overlaps_1d"
       => /\ NoDup(result)
          /\ \A x \in Range(result) :
                /\ x[1] <= i /\ x[2] <= j
                /\ x[1] + x[2] < i + j
    /\ op = "find_overlaps_genomic" => NoDup(overlaps)

\* The 1D sweep has returned two pairs for a list A that holds the same
\* interval twice
C20_Witness ==
    /\ op = "find_overlaps_1d" /\ pc = "done"
    /\ Len(intervals_a) = 2
    /\ intervals_a[1] = intervals_a[2]
    /\ Len(result) = 2

----------------------------------------------------------------------------
(* Further properties of the sweeps, the union and the annotator *)

\* C21: chromosome scoping with original indices: every pair (i, j)
\* returned by find_overlaps_genomic indexes the caller's lists, sorted or
\* not, with A[i] and B[j] on one chromosome and strictly overlapping; no
\* pair joins two chromosomes and a chromosome present in one input only
\* contributes no pair
C21_GenomicSound ==
    op = "find_overlaps_genomic" =>
        \A x \in Range(overlaps) :
            /\ 0 <= x[1] /\ x[1] < Len(intervals_a)
            /\ 0 <= x[2] /\ x[2] < Len(intervals_b)
            /\ LET p == intervals_a[x[1] + 1]
                   q == intervals_b[x[2] + 1]
               IN /\ p[1] = q[1]
                  /\ intervals_overlap(<<p[2], p[3]>>, <<q[2], q[3]>>)
                  /\ p[1] \in {intervals_a[n][1] : n \in DOMAIN intervals_a}
                              \cap {intervals_b[n][1] : n \in DOMAIN intervals_b}

\* A given in descending start order on one chromosome, B with an interval
\* there and one of the same coordinates on a chromosome absent from A;
\* the only pair returned is (1, 0)
C21_Witness ==
    /\ op = "find_overlaps_genomic" /\ pc = "done"
    /\ Len(intervals_a) = 2 /\ Len(intervals_b) = 2
    /\ intervals_a[1][1] = intervals_a[2][1]
    /\ intervals_a[2][2] < intervals_a[1][2]
    /\ intervals_b[1][1] = intervals_a[1][1]
    /\ intervals_b[2][1] # intervals_a[1][1]
    /\ intervals_b[2][2] = intervals_a[2][2] /\ intervals_b[2][3] = intervals_a[2][3]
    /\ overlaps = <<<<1, 0>>>>

\* Position of a sample id in ascending string order
SampleRank(s) == CHOOSE k \in DOMAIN SampleOrder : SampleOrder[k] = s

\* C22: every contributor list of the membership map is deduplicated and
\* ascending: no sample id appears twice for one union peak, also when
\* several of the sample's intervals fall in it, and the order does not
\* follow the iteration order of the samples
C22_MembersSortedUnique ==
    (pc = "done" /\ return_membership) =>
        \A u \in DOMAIN membership :
            \A m, n \in DOMAIN membership[u] :
                m < n => SampleRank(membership[u][m]) < SampleRank(membership[u][n])

\* The sample met first is the larger id and has two intervals in the one
\* union peak, which the other sample overlaps too
C22_Witness ==
    /\ pc = "done" /\ return_membership
    /\ Len(peaks_by_sample) = 2
    /\ peaks_by_sample[1][1] = SampleOrder[2]
    /\ Len(PeaksOf(1)) = 2 /\ Len(PeaksOf(2)) = 1
    /\ Len(union_list) = 1
    /\ membership[union_list[1]] = SampleOrder

\* The flank of gene g that lies at smaller coordinates, and the other one
LeftFlank(g) == IF g.strand = "+" THEN promoter_upstream ELSE promoter_downstream

RightFlank(g) == IF g.strand = "+" THEN promoter_downstream ELSE promoter_upstream

\* tss - flank clamped at 0
ClampedStart(g) == IF g.tss - LeftFlank(g) < 0 THEN 0 ELSE g.tss - LeftFlank(g)

\* C23: promoter window construction: each gene gets at most one window,
\* [max(0, tss - upstream), tss + downstream) on strand + and
\* [max(0, tss - downstream), tss + upstream) on strand -, with the gene's
\* name and tss; the window is left out exactly when its end <= its start
\* after clamping, so every window has 0 <= start < end
C23_PromoterWindows ==
    pc = "done" =>
        /\ \A n \in DOMAIN genes :
              LET g == genes[n]
                  ws == {k \in DOMAIN PromoterWindows :
                            PromoterWindows[k].gene_name = g.gene_name}
              IN /\ Cardinality(ws) =
                       IF g.tss + RightFlank(g) <= ClampedStart(g) THEN 0 ELSE 1
                 /\ \A k \in ws :
                       /\ PromoterWindows[k].chrom = g.chrom
                       /\ PromoterWindows[k].start = ClampedStart(g)
                       /\ PromoterWindows[k].end = g.tss + RightFlank(g)
                       /\ PromoterWindows[k].tss = g.tss
        /\ \A k \in DOMAIN PromoterWindows :
              /\ 0 <= PromoterWindows[k].start
              /\ PromoterWindows[k].start < PromoterWindows[k].end
              /\ \E n \in DOMAIN genes :
                    genes[n].gene_name = PromoterWindows[k].gene_name

\* Unequal flanks; a + gene whose window is clamped to nothing and a - gene
\* whose window is kept
C23_Witness ==
    /\ pc = "done"
    /\ promoter_upstream # promoter_downstream
    /\ Len(genes) = 2 /\ Len(PromoterWindows) = 1
    /\ \E n \in DOMAIN genes :
          /\ genes[n].strand = "+"
          /\ genes[n].tss - promoter_upstream < 0
          /\ PromoterWindows[1].gene_name # genes[n].gene_name
    /\ \E n \in DOMAIN genes :
          /\ genes[n].strand = "-"
          /\ PromoterWindows[1].gene_name = genes[n].gene_name

\* The sweep as a running program: a step that can be taken is taken
SpecSweepLive == SpecSweep /\ WF_vars(NextSweep)

\* C24: sweep termination: the loop ends after at most |A| + |B|
\* iterations, each iteration moving the pointers one position on in
\* total, and it stops exactly when i = |A| or j = |B|
C24_SweepTerminates ==
    /\ [](i <= Len(a) /\ j <= Len(b))
    /\ [](pc = "done" => (i = Len(a) \/ j = Len(b)))
    /\ [][pc = "loop" => (pc' = "done" <=> (i = Len(a) \/ j = Len(b)))]_vars
    /\ [][(pc = "loop" /\ pc' = "loop") => i' + j' = i + j + 1]_vars
    /\ <>(pc = "done")

\* The loop has ended with A exhausted and B not, after |A| + |B| - 1
\* iterations over two lists of two intervals
C24_Witness ==
    /\ pc = "done"
    /\ Len(a) = 2 /\ Len(b) = 2
    /\ i = Len(a) /\ j < Len(b)
    /\ i + j = Len(a) + Len(b) - 1

\* Calls for the forward sweep of the annotator: up to AnnMaxPeaks peaks on
\* either chromosome, up to AnnMaxGenes genes on the first chromosome
InitHits ==
    /\ op = "annotate_peaks"
    /\ pc = "call"
    /\ \E np \in 1..AnnMaxPeaks : peaks \in [1..np -> AnnPeaksSet]
    /\ \E ng \in 0..AnnMaxGenes :
          \E shapes \in [1..ng -> {g \in GeneShapes(AnnMaxCoord) :
                                     g.chrom = ChromOrder[1]}] :
             genes = NameGenes(shapes)
    /\ promoter_upstream \in 0..AnnMaxFlank
    /\ promoter_downstream \in 0..AnnMaxFlank
    /\ out = <<>>
    /\ MergeIdle
    /\ SweepIdle
    /\ GenIdle
    /\ UnionIdle

SpecHits == InitHits /\ [][NextAnnotate]_vars

\* Lines 303-304: the two hit dicts of the call
PromoterHits ==
    annotate_overlaps(peaks, group_by_chrom_intervals(PromoterWindows))

GeneHits ==
    annotate_overlaps(peaks, group_by_chrom_intervals(gene_bodies(genes)))

\* hits holds for every peak index exactly the overlapping features of
\* fs on the peak's chromosome, in start-sorted order, and no empty list
ExactHits(hits, fs) ==
    /\ DOMAIN hits \subseteq 0..(Len(peaks) - 1)
    /\ \A p \in 0..(Len(peaks) - 1) :
          LET grouped == group_by_chrom_intervals(fs)
              c == peaks[p + 1][1]
              sorted == IF c \in DOMAIN grouped THEN grouped[c] ELSE <<>>
              want == SelectSeq(sorted, LAMBDA f : FeatureHits(peaks[p + 1], f))
          IN IF want = <<>> THEN p \notin DOMAIN hits
             ELSE p \in DOMAIN hits /\ hits[p] = want

\* Line 223: the shared pointer j after the first n peaks of p_list
RECURSIVE PointerAfter(_, _, _)
PointerAfter(p_list, f_list, n) ==
    IF n = 0 THEN 0
    ELSE AdvanceJ(f_list, PointerAfter(p_list, f_list, n - 1), p_list[n][1])

\* The pointer never goes back and no feature it has passed overlaps the
\* current or a later peak of the chromosome
PointerSafe(fs) ==
    LET grouped == group_by_chrom_intervals(fs)
        peak_grouped == group_by_chrom_peaks(peaks)
    IN \A c \in DOMAIN grouped \cap DOMAIN peak_grouped :
          \A n \in DOMAIN peak_grouped[c] :
              LET jn == PointerAfter(peak_grouped[c], grouped[c], n)
              IN /\ PointerAfter(peak_grouped[c], grouped[c], n - 1) <= jn
                 /\ \A q \in 1..jn, m \in n..Len(peak_grouped[c]) :
                       ~(peak_grouped[c][m][1] < grouped[c][q].end
                         /\ grouped[c][q].start < peak_grouped[c][m][2])

\* C25: exactness of the annotator's forward sweep: hits[p] is exactly the
\* list of features on the peak's chromosome that strictly overlap the
\* peak, each once, in start-sorted order, for peaks in any input order
\* and for nested features; the shared pointer j never passes a feature
\* that overlaps the current or a later peak and never goes back
C25_HitsExact ==
    pc = "done" =>
        /\ ExactHits(PromoterHits, PromoterWindows)
        /\ ExactHits(GeneHits, gene_bodies(genes))
        /\ PointerSafe(PromoterWindows)
        /\ PointerSafe(gene_bodies(genes))

\* Two peaks of one chromosome given in descending start order and two
\* nested gene spans: the later peak lies past the inner span, which the
\* pointer has not passed, and overlaps the outer one only
C25_Witness ==
    /\ pc = "done"
    /\ Len(peaks) = 2 /\ Len(genes) = 2
    /\ peaks[1][1] = ChromOrder[1] /\ peaks[2][1] = ChromOrder[1]
    /\ peaks[2][2] < peaks[1][2]
    /\ \E m, n \in DOMAIN genes :
          /\ genes[m].start < genes[n].start /\ genes[n].end < genes[m].end
          /\ genes[n].end <= peaks[1][2]
          /\ 0 \in DOMAIN GeneHits /\ 1 \in DOMAIN GeneHits
          /\ Len(GeneHits[0]) = 1 /\ Len(GeneHits[1]) = 2
          /\ GeneHits[0][1].gene_name = genes[m].gene_name

\* C26: pointer advance rule: every loop iteration increases exactly one of
\* i, j by exactly 1 and leaves the other; i advances iff a[i].end <=
\* b[j].end (ties advance i), else j; no pointer ever decreases, and the
\* emitted pairs are non-decreasing in both components
C26_PointerAdvance ==
    /\ [][(pc = "loop" /\ pc' = "loop") =>
             IF a[i + 1][2] <= b[j + 1][2]
             THEN i' = i + 1 /\ j' = j
             ELSE i' = i /\ j' = j + 1]_vars
    /\ [][i' >= i /\ j' >= j]_vars
    /\ [](\A m, n \in DOMAIN result :
             m < n => /\ result[m][1] <= result[n][1]
                      /\ result[m][2] <= result[n][2])

\* Both pointers have advanced and the two heads end at the same position
C26_Witness ==
    /\ pc = "loop"
    /\ i >= 1 /\ j >= 1
    /\ i < Len(a) /\ j < Len(b)
    /\ a[i + 1][2] = b[j + 1][2]

\* C27: union_peaks, find_overlaps_1d, find_overlaps_genomic and
\* annotate_peaks leave their input collections as they were: no step of
\* these calls changes a sample's peak list, either interval list, the
\* peak list or the gene list, although each call sorts internally
C27_InputsUnchanged ==
    [][(op \in {"union_peaks", "find_overlaps_1d", "find_overlaps_genomic",
                "annotate_peaks"})
       => (intervals_a' = intervals_a
           /\ intervals_b' = intervals_b
           /\ peaks_by_sample' = peaks_by_sample
           /\ peaks' = peaks
           /\ genes' = genes)]_vars

\* find_overlaps_1d has returned for two lists given in descending start
\* order, which its sorted copies are not
C27_Witness ==
    /\ op = "find_overlaps_1d" /\ pc = "done"
    /\ Len(intervals_a) = 2 /\ Len(intervals_b) = 2
    /\ ~IsSortedByStart(intervals_a) /\ ~IsSortedByStart(intervals_b)
    /\ a # intervals_a /\ b # intervals_b
    /\ IsSortedByStart(a) /\ IsSortedByStart(b)

\* No two intervals of the list strictly overlap each other
InternallyDisjoint(s) ==
    \A m, n \in DOMAIN s : m # n => ~intervals_overlap(s[m], s[n])

\* C28: the sweep is complete on internally disjoint lists: for A and B
\* sorted by start, each without two overlapping intervals of its own, the
\* set of returned pairs is exactly the set of (i, j) with A[i] strictly
\* overlapping B[j]
C28_CompleteOnDisjoint ==
    (pc = "done"
       /\ IsSortedByStart(intervals_a) /\ IsSortedByStart(intervals_b)
       /\ InternallyDisjoint(intervals_a) /\ InternallyDisjoint(intervals_b))
    => Range(result) =
          {<<xy[1] - 1, xy[2] - 1>> : xy \in
              {pq \in (DOMAIN intervals_a) \X (DOMAIN intervals_b) :
                  intervals_overlap(intervals_a[pq[1]], intervals_b[pq[2]])}}

\* Two touching intervals in A and one interval of B across both: two pairs
C28_Witness ==
    /\ pc = "done"
    /\ Len(intervals_a) = 2 /\ Len(intervals_b) = 1
    /\ IsSortedByStart(intervals_a)
    /\ InternallyDisjoint(intervals_a)
    /\ result = <<<<0, 0>>, <<1, 0>>>>

\* The permutations of 1..n
Perms(n) == {f \in [1..n -> 1..n] : \A x, y \in 1..n : x # y => f[x] # f[y]}

\* The list s taken in the order f
Permuted(s, f) == [k \in DOMAIN s |-> s[f[k]]]

\* The dicts that hold the samples of d in any order, each with its peaks
\* in any order
PermutedDicts(d) ==
    LET orders == UNION {Perms(Len(d[k][2])) : k \in DOMAIN d}
        pick == {g \in [DOMAIN d -> orders] :
                    \A k \in DOMAIN d : g[k] \in Perms(Len(d[k][2]))}
    IN {[k \in DOMAIN d |-> <<d[sp[k]][1], Permuted(d[sp[k]][2], g[sp[k]])>>] :
           sp \in Perms(Len(d)), g \in pick}

\* C29: merge and union are order-insensitive: merge of every permutation
\* of the list returns the same list (equal starts with different ends
\* included), and union_peaks returns the same union list and the same
\* membership map for every order of the samples and of each sample's peaks
C29_OrderInsensitive ==
    /\ (op = "merge" /\ pc = "merged")
       => \A f \in Perms(Len(intervals0)) :
             MergeFn(fn, Permuted(intervals0, f)) = merged
    /\ (op = "union_peaks" /\ pc = "done")
       => \A d \in PermutedDicts(peaks_by_sample) :
             /\ UnionList(d) = union_list
             /\ return_membership => Membership(d, UnionList(d)) = membership

\* merge has returned for three intervals not in start order, two of them
\* with one start and different ends, the longer given first
C29_Witness ==
    /\ op = "merge" /\ pc = "merged"
    /\ Len(intervals0) = 3
    /\ ~IsSortedByStart(intervals0)
    /\ \E m, n \in DOMAIN intervals0 :
          /\ m < n
          /\ intervals0[m][1] = intervals0[n][1]
          /\ intervals0[n][2] < intervals0[m][2]
    /\ Len(merged) = 2

\* The union peaks of the result that contain peak pk
Containing(pk) ==
    {u \in Range(union_list) : u[1] = pk[1] /\ u[2] <= pk[2] /\ pk[3] <= u[3]}

\* C30: with membership requested, the keys of the membership map are the
\* returned union peaks, every union peak has a contributing sample, and
\* every input interval lies inside exactly one union peak of its
\* chromosome, the only one it overlaps and to which it adds its sample
C30_MembershipTotal ==
    (pc = "done" /\ return_membership) =>
        /\ DOMAIN membership = Range(union_list)
        /\ \A u \in Range(union_list) : membership[u] # <<>>
        /\ \A k \in DOMAIN peaks_by_sample :
              \A n \in DOMAIN PeaksOf(k) :
                  /\ Cardinality(Containing(PeaksOf(k)[n])) = 1
                  /\ {u \in Range(union_list) : OverlapsPeak(PeaksOf(k)[n], u)}
                        = Containing(PeaksOf(k)[n])
                  /\ \A u \in Containing(PeaksOf(k)[n]) :
                        peaks_by_sample[k][1] \in Range(membership[u])

\* Three union peaks from two samples, one sample holding two separate
\* intervals of one chromosome
C30_Witness ==
    /\ pc = "done" /\ return_membership
    /\ Len(peaks_by_sample) = 2
    /\ Len(union_list) = 3
    /\ \E k \in DOMAIN peaks_by_sample :
          /\ Len(PeaksOf(k)) = 2
          /\ PeaksOf(k)[1][1] = PeaksOf(k)[2][1]
          /\ Containing(PeaksOf(k)[1]) # Containing(PeaksOf(k)[2])

====
